---- MODULE Spec2Model ----
(***************************************************************************)
(* A model of one WebSocket session of streamio, in its two builds:        *)
(*   "standalone"  server_standalone.rs + streamer_standalone.rs           *)
(*                 (wgpu renderer, openh264, webrtc-rs, camera input)      *)
(*   "screen"      screen_server.rs + screen_capture.rs + input.rs         *)
(*                 (GStreamer webrtcbin, enigo input worker thread)        *)
(* Every task the session spawns is a process of the model; a tokio task   *)
(* moves from one await to the next in one action.                         *)
(***************************************************************************)
EXTENDS Integers, Sequences, FiniteSets, TLC

\* ---------------------------------------------------------------- bounds
\* inbound WebSocket frames the client sends in one session
MaxFrames == 2
\* local ICE candidates the peer connection gathers
MaxCand == 1
\* frames the render loop produces
MaxRender == 2

\* input events applied to the camera
MaxEvents == 3

\* WebSocket sessions open on the one renderer
NSessions == 2

\* events given to the input controller
MaxInputs == 2

\* streamers constructed, each calling create_encoder once
MaxProbes == 2

\* the largest frame width and height, in pixels
MaxDim == 4

\* the frame contents tried for each size are numbered 0..MaxSeed
MaxSeed == 7

Variants == {"standalone", "screen"}

\* ------------------------------------------------ inbound frames (axum Message)
\* A text frame is described by what serde sees in it: the value of its
\* "type" field ("none" when the text is not a JSON object with such a field),
\* whether the fields that variant requires are present and well typed (wf),
\* and whether its payload is acceptable to the peer connection (ok: the SDP
\* parses, the candidate line parses).
SignalingTags == {"offer", "answer", "ice"}

RendererInputTags == {"rotate", "zoom", "pan", "reset", "set_camera", "load_horizon"}

OsInputTags == {"mouse_down", "mouse_up", "mouse_move", "scroll", "key_down", "key_up"}

InputTags(v) == IF v = "standalone" THEN RendererInputTags ELSE OsInputTags

\* the texts the modelled client sends
ClientTexts(v) ==
    {[kind |-> "text", tag |-> t, wf |-> TRUE, ok |-> TRUE] : t \in SignalingTags}
    \cup {[kind |-> "text", tag |-> "answer", wf |-> TRUE, ok |-> FALSE],
          [kind |-> "text", tag |-> "ice", wf |-> FALSE, ok |-> TRUE],
          [kind |-> "text", tag |-> "none", wf |-> FALSE, ok |-> TRUE]}
    \cup {[kind |-> "text", tag |-> t, wf |-> TRUE, ok |-> TRUE] :
            t \in IF v = "standalone" THEN {"rotate", "reset", "mouse_move"}
                  ELSE {"mouse_move", "mouse_down", "mouse_up", "rotate"}}

OtherFrames ==
    {[kind |-> k, tag |-> "none", wf |-> TRUE, ok |-> TRUE] :
        k \in {"binary", "ping", "pong", "close", "error", "end"}}

ClientFrames(v) == ClientTexts(v) \cup OtherFrames

\* serde_json::from_str::<SignalingMessage>(&text): an internally tagged enum,
\* Ok exactly when the tag names a variant and that variant's fields decode
ParseSignaling(f) == f.tag \in SignalingTags /\ f.wf

\* serde_json::from_str::<InputEvent>(&text)
ParseInput(v, f) == f.tag \in InputTags(v) /\ f.wf

\* ------------------------------------------------------------------ state
VARIABLES
    variant,          \* which build serves the session
    reader,           \* handle_websocket: where the session's own task is
    nrecv,            \* frames taken from ws_rx so far
    outcome,          \* what the dispatch loop did with the frame taken last
    sig_sent,         \* every message the channel sig_tx -> sig_rx accepted
    fwd_idx,          \* how many of them sig_rx.recv() has returned
    ws_tx,            \* the messages written to the WebSocket, in order
    ws_forward_task,  \* the task draining sig_rx into ws_tx
    fwd_abort,        \* abort() reached it while it was being polled
    offer_task,       \* the detached task that sleeps, then calls create_offer
    peer,             \* the peer connection (RTCPeerConnection / webrtcbin)
    gst_ops,          \* webrtcbin's task queue (screen build)
    pipeline,         \* gst::Pipeline state (screen build)
    render_task,      \* the render loop (standalone build)
    render_abort,     \* abort() reached it while it was being polled
    produced,         \* frames render_frame has returned
    track,            \* the samples written to the video track: their frames
    push_errs,        \* push_frame calls of the render loop that returned Err
    input_tx,         \* the sender half of the input channel is alive
    in_q,             \* events waiting in the input channel
    worker,           \* the input thread
    arrived,          \* input events in the order the reader decoded them
    effects,          \* OS calls / camera updates, in the order they happened
    ice_arrived,      \* how many inbound candidates handle_signaling was given
    teardowns,        \* how often the cleanup code has run
    camera,           \* HorizonRenderer::camera, shared by all sessions
    cam_log,          \* the types of the input events handle_input has applied
    in_flight,        \* per session: its render task is inside render_frame
    ctl_events,       \* the events InputController::handle_event was given
    ctl_calls,        \* for each of them, the calls it made on enigo, in order
    cam_hist,         \* the camera after each event handle_input has applied
    frame_cam,        \* per session: the camera its frame in flight was set up from
    enc_probes,       \* the create_encoder calls made: what was available, what came back
    yuv,              \* the last Yuv420Buffer::from_rgba call: its input and its result
    px                \* the last pixel given to the BT.601 formulas: its red value

readerVars == <<reader, nrecv, outcome, teardowns>>

outVars == <<sig_sent, fwd_idx, ws_tx, ws_forward_task, fwd_abort>>

rtcVars == <<offer_task, peer, gst_ops, pipeline, ice_arrived>>

mediaVars == <<render_task, render_abort, produced, track, push_errs>>

inputVars == <<input_tx, in_q, worker, arrived, effects>>

rendererVars == <<camera, cam_log, in_flight, cam_hist, frame_cam>>

\* the state of one session
sessionVars == <<variant, readerVars, outVars, rtcVars, mediaVars, inputVars>>

controllerVars == <<ctl_events, ctl_calls>>

encoderVars == <<enc_probes>>

yuvVars == <<yuv, px>>

\* what no step of a session changes
outsideVars == <<rendererVars, controllerVars, encoderVars, yuvVars>>

vars == <<sessionVars, rendererVars, controllerVars, encoderVars, yuvVars>>

\* ------------------------------------------------------------ the camera
\* The camera's f32 fields are kept as fixed-point numbers with three decimal
\* places; an f32 too large for its range saturates at a clamp bound exactly
\* as a large number does here.
Scale == 1000

\* a * b on fixed-point numbers
Mul(a, b) == (a * b) \div Scale

\* f32::clamp without its bounds
clampNone(x, lo, hi) == x

\* f32::clamp
clamp(x, lo, hi) == IF x < lo THEN lo ELSE IF x > hi THEN hi ELSE x

\* impl Default for Camera
DefaultCamera ==
    [azimuth     |-> 45 * Scale,
     elevation   |-> 30 * Scale,
     distance    |-> 5 * Scale,
     focal_point |-> <<0, 0, 0>>,
     fov         |-> 45 * Scale]

\* a rotate that turns by the full dx
rotateFullStep(c, dx, dy) ==
    [c EXCEPT !.azimuth = @ + dx,
              !.elevation = clamp(@ + Mul(dy, 500), -89 * Scale, 89 * Scale)]

\* Camera::rotate
\*     self.azimuth += dx * 0.5;
\*     self.elevation = (self.elevation + dy * 0.5).clamp(-89.0, 89.0);
rotate(c, dx, dy) ==
    [c EXCEPT !.azimuth = @ + Mul(dx, 500),
              !.elevation = clamp(@ + Mul(dy, 500), -89 * Scale, 89 * Scale)]

\* a zoom that moves the camera by delta tenths
zoomSubtracts(c, delta) ==
    [c EXCEPT !.distance = clamp(@ - Mul(delta, 100), 1 * Scale, 20 * Scale)]

\* Camera::zoom
\*     self.distance = (self.distance * (1.0 - delta * 0.1)).clamp(1.0, 20.0);
zoom(c, delta) ==
    [c EXCEPT !.distance = clamp(Mul(@, Scale - Mul(delta, 100)), 1 * Scale, 20 * Scale)]

\* a pan whose scale is that of the default distance
panFixedScale(c, dx, dy) ==
    LET scale == Mul(DefaultCamera.distance, 2)
    IN  [c EXCEPT !.focal_point = <<@[1] - Mul(dx, scale), @[2] + Mul(dy, scale), @[3]>>]

\* Camera::pan
\*     let scale = self.distance * 0.002;
\*     self.focal_point.x -= dx * scale;
\*     self.focal_point.y += dy * scale;
pan(c, dx, dy) ==
    LET scale == Mul(c.distance, 2)
    IN  [c EXCEPT !.focal_point = <<@[1] - Mul(dx, scale), @[2] + Mul(dy, scale), @[3]>>]

\* a reset that leaves the camera looking at the point it looked at
resetKeepsFocus(c) == [DefaultCamera EXCEPT !.focal_point = c.focal_point]

\* Camera::reset:  *self = Self::default();
reset(c) == DefaultCamera

\* the input events the modelled clients send to the renderer
CameraEvents ==
    {[type |-> "rotate", dx |-> 720 * Scale, dy |-> 20 * Scale],
     [type |-> "rotate", dx |-> -7 * Scale, dy |-> -500 * Scale],
     [type |-> "rotate", dx |-> 0, dy |-> 500 * Scale]}
    \cup {[type |-> "zoom", delta |-> d] :
             d \in {1 * Scale, -1 * Scale, 10 * Scale, 25 * Scale, -500 * Scale}}
    \cup {[type |-> "pan", dx |-> 10 * Scale, dy |-> -5 * Scale]}
    \cup {[type |-> "reset"]}
    \cup {[type |-> "set_camera", azimuth |-> 0, elevation |-> 120 * Scale,
           distance |-> 100, focal_point |-> <<1 * Scale, 2 * Scale, 3 * Scale>>],
          [type |-> "set_camera", azimuth |-> 90 * Scale, elevation |-> -45 * Scale,
           distance |-> 10 * Scale, focal_point |-> <<0, 0, 0>>],
          [type |-> "set_camera", azimuth |-> -30 * Scale, elevation |-> 10 * Scale,
           distance |-> -5 * Scale, focal_point |-> <<0, 0, 1 * Scale>>]}
    \cup {[type |-> "load_horizon"]}

\* a handle_input that clamps what set_camera writes
handle_inputClamped(c, e) ==
    CASE e.type = "rotate" -> rotate(c, e.dx, e.dy)
      [] e.type = "zoom"   -> zoom(c, e.delta)
      [] e.type = "pan"    -> pan(c, e.dx, e.dy)
      [] e.type = "reset"  -> reset(c)
      [] e.type = "set_camera" ->
            [c EXCEPT !.azimuth = e.azimuth,
                      !.elevation = clamp(e.elevation, -89 * Scale, 89 * Scale),
                      !.distance = clamp(e.distance, 1 * Scale, 20 * Scale),
                      !.focal_point = e.focal_point]
      [] OTHER -> c

\* HorizonRenderer::handle_input: the camera after the event e, applied under
\* the write lock
handle_input(c, e) ==
    CASE e.type = "rotate" -> rotate(c, e.dx, e.dy)
      [] e.type = "zoom"   -> zoom(c, e.delta)
      [] e.type = "pan"    -> pan(c, e.dx, e.dy)
      [] e.type = "reset"  -> reset(c)
      [] e.type = "set_camera" ->
            [c EXCEPT !.azimuth = e.azimuth,
                      !.elevation = e.elevation,
                      !.distance = e.distance,
                      !.focal_point = e.focal_point]
      [] OTHER -> c

Sessions == 1..NSessions

\* the peer connection before any description is set
NewPeer ==
    [signaling |-> "stable",    \* "stable" | "have-local-offer"
     local     |-> FALSE,       \* a local description is set
     remote    |-> FALSE,       \* a remote description is set
     gathering |-> "new",       \* "new" | "gathering" | "complete"
     gathered  |-> 0,           \* local candidates found so far
     applied   |-> {},          \* inbound candidates added to the ICE agent
     pending   |-> {},          \* inbound candidates webrtcbin holds back
     conn      |-> "new",       \* "new" | "connected" | "disconnected" | "failed" | "closed"
     closed    |-> FALSE]

Init ==
    /\ variant \in Variants
    /\ reader = "new"
    /\ nrecv = 0
    /\ outcome = "none"
    /\ sig_sent = <<>>
    /\ fwd_idx = 0
    /\ ws_tx = <<>>
    /\ ws_forward_task = "none"
    /\ fwd_abort = FALSE
    /\ offer_task = "none"
    /\ peer = NewPeer
    /\ gst_ops = <<>>
    /\ pipeline = "null"
    /\ render_task = "none"
    /\ render_abort = FALSE
    /\ produced = 0
    /\ track = <<>>
    /\ push_errs = 0
    /\ input_tx = FALSE
    /\ in_q = <<>>
    /\ worker = "none"
    /\ arrived = <<>>
    /\ effects = <<>>
    /\ ice_arrived = 0
    /\ teardowns = 0
    /\ camera = DefaultCamera
    /\ cam_log = <<>>
    /\ in_flight = [s \in Sessions |-> FALSE]
    /\ ctl_events = <<>>
    /\ ctl_calls = <<>>
    /\ cam_hist = <<>>
    /\ frame_cam = [s \in Sessions |-> <<>>]
    /\ enc_probes = <<>>
    /\ yuv = <<>>
    /\ px = <<>>

\* ------------------------------------------------- the outbound channel
\* sig_rx lives in ws_forward_task; once that task is gone the receiver is
\* dropped and UnboundedSender::send returns Err, which every caller discards
SigRxAlive == ws_forward_task \in {"recv", "send"}

\* what sig_sent becomes when outgoing_tx.send(msg) is called
SigSend(msg) == IF SigRxAlive THEN Append(sig_sent, msg) ELSE sig_sent

\* --------------------------------------------------- handle_websocket
\* Session construction up to the dispatch loop.  ok is the result of
\* WebRtcStreamer::new (standalone) or of ScreenStreamer::new followed by
\* start() (screen); on Err the handler returns before spawning anything.
\* (first, a handler that spawns its tasks before it looks at the result)
ConstructSpawnsFirst ==
    /\ reader = "new"
    /\ \E ok \in BOOLEAN :
         /\ reader' = IF ok THEN "loop" ELSE "failed"
         /\ ws_forward_task' = "recv"
         /\ offer_task' = "sleep"
         /\ render_task' = IF variant = "standalone" THEN "wait" ELSE "none"
         /\ pipeline' = IF variant = "screen" /\ ok THEN "playing" ELSE "null"
         /\ worker' = IF variant = "screen" THEN "init" ELSE "none"
         /\ input_tx' = (variant = "screen" /\ ok)
    /\ UNCHANGED <<variant, outsideVars, nrecv, outcome, teardowns,
                   sig_sent, fwd_idx, ws_tx, fwd_abort, peer, gst_ops, ice_arrived,
                   render_abort, produced, track, push_errs, in_q, arrived, effects>>

Construct ==
    /\ reader = "new"
    /\ \E ok \in BOOLEAN :
         IF ok
         THEN /\ reader' = "loop"
              /\ ws_forward_task' = "recv"
              /\ offer_task' = "sleep"
              /\ render_task' = IF variant = "standalone" THEN "wait" ELSE "none"
              /\ pipeline' = IF variant = "screen" THEN "playing" ELSE "null"
              /\ worker' = IF variant = "screen" THEN "init" ELSE "none"
              /\ input_tx' = (variant = "screen")
         ELSE /\ reader' = "failed"
              /\ UNCHANGED <<ws_forward_task, offer_task, render_task, pipeline,
                             worker, input_tx>>
    /\ UNCHANGED <<variant, outsideVars, nrecv, outcome, teardowns,
                   sig_sent, fwd_idx, ws_tx, fwd_abort, peer, gst_ops, ice_arrived,
                   render_abort, produced, track, push_errs, in_q, arrived, effects>>

\* WebRtcStreamer::handle_signaling (webrtc-rs): the peer connection after the
\* message f, the id-th frame of the session, is handled.
\*   answer: RTCSessionDescription::answer(sdp)? fails on an SDP that does not
\*           parse; set_remote_description fails on a closed connection and
\*           when no local offer is pending (signaling state not
\*           have-local-offer); otherwise the remote description is installed
\*   ice:    add_ice_candidate fails with ErrNoRemoteDescription while no remote
\*           description is set; the candidate is then gone
\*   offer:  nothing
\* (below) the same handler, and one that installs an inbound offer as the
\* remote description
StandaloneSignalingTakesOffer(p, f, id) ==
    CASE f.tag = "answer" ->
            IF f.ok /\ ~p.closed /\ p.signaling = "have-local-offer"
            THEN [p EXCEPT !.remote = TRUE, !.signaling = "stable"]
            ELSE p
      [] f.tag = "ice" ->
            IF p.remote /\ ~p.closed
            THEN [p EXCEPT !.applied = @ \cup {id}]
            ELSE p
      [] f.tag = "offer" ->
            IF f.ok /\ ~p.closed THEN [p EXCEPT !.remote = TRUE] ELSE p
      [] OTHER -> p

StandaloneSignaling(p, f, id) ==
    CASE f.tag = "answer" ->
            IF f.ok /\ ~p.closed /\ p.signaling = "have-local-offer"
            THEN [p EXCEPT !.remote = TRUE, !.signaling = "stable"]
            ELSE p
      [] f.tag = "ice" ->
            IF p.remote /\ ~p.closed
            THEN [p EXCEPT !.applied = @ \cup {id}]
            ELSE p
      [] OTHER -> p

\* ScreenStreamer::handle_signaling (webrtcbin): the action signals it emits.
\* emit_by_name only queues the operation for webrtcbin's own thread.
\*   answer: SDPMessage::parse_buffer(..)? fails on an SDP that does not parse
ScreenSignaling(ops, f, id) ==
    CASE f.tag = "answer" ->
            IF f.ok THEN Append(ops, [op |-> "set-remote", id |-> id]) ELSE ops
      [] f.tag = "ice" -> Append(ops, [op |-> "add-ice", id |-> id])
      [] OTHER -> ops

\* Dispatch with a reader that gives up on a text it cannot decode
DispatchBreaksOnUnknown(v, f) ==
    CASE f.kind = "text" ->
            IF ParseSignaling(f) THEN "signaling"
            ELSE IF ParseInput(v, f) THEN "input"
            ELSE "exit"
      [] f.kind \in {"close", "error", "end"} -> "exit"
      [] OTHER -> "skipped"

\* Dispatch with a reader that ends the session when an answer is rejected
DispatchExitsOnBadAnswer(v, f) ==
    CASE f.kind = "text" ->
            IF ParseSignaling(f) THEN (IF f.tag = "answer" /\ ~f.ok THEN "exit" ELSE "signaling")
            ELSE IF ParseInput(v, f) THEN "input"
            ELSE "unknown"
      [] f.kind \in {"close", "error", "end"} -> "exit"
      [] OTHER -> "skipped"

\* Dispatch with a reader that skips read errors like any other frame
DispatchSkipsError(v, f) ==
    CASE f.kind = "text" ->
            IF ParseSignaling(f) THEN "signaling"
            ELSE IF ParseInput(v, f) THEN "input"
            ELSE "unknown"
      [] f.kind \in {"close", "end"} -> "exit"
      [] OTHER -> "skipped"

\* The dispatch of one frame by the reader loop.  A text frame goes three
\* ways: signaling first, input second (each branch ends in `continue`), the
\* warning last.  Close and Err break the loop, as does the end of the stream;
\* every other frame falls into `_ => {}`.
Dispatch(v, f) ==
    CASE f.kind = "text" ->
            IF ParseSignaling(f) THEN "signaling"
            ELSE IF ParseInput(v, f) THEN "input"
            ELSE "unknown"
      [] f.kind \in {"close", "error", "end"} -> "exit"
      [] OTHER -> "skipped"

\* the receiver of the input channel lives in the worker thread
InputRxAlive == worker \in {"init", "recv"}

\* One turn of `while let Some(msg) = ws_rx.next().await`, with the frame f.
\* An inbound candidate is known by its rank among the candidates received.
ReadFrame(f) ==
    /\ reader = "loop"
    /\ nrecv < MaxFrames \/ Dispatch(variant, f) = "exit"
    /\ nrecv' = nrecv + 1
    /\ LET d  == Dispatch(variant, f)
           id == ice_arrived + 1
       IN  /\ outcome' = d
           /\ reader' = IF d = "exit" THEN "cleanup" ELSE "loop"
           /\ peer' = IF d = "signaling" /\ variant = "standalone"
                      THEN StandaloneSignaling(peer, f, id) ELSE peer
           /\ gst_ops' = IF d = "signaling" /\ variant = "screen"
                         THEN ScreenSignaling(gst_ops, f, id) ELSE gst_ops
           /\ ice_arrived' = IF d = "signaling" /\ f.tag = "ice" THEN id ELSE ice_arrived
           /\ arrived' = IF d = "input" THEN Append(arrived, f.tag) ELSE arrived
           \* standalone: renderer.handle_input(&input) updates the camera here
           /\ effects' = IF d = "input" /\ variant = "standalone"
                         THEN Append(effects, <<"camera", f.tag>>) ELSE effects
           \* screen: let _ = input_tx.send(input_event)
           /\ in_q' = IF d = "input" /\ variant = "screen" /\ InputRxAlive
                      THEN Append(in_q, f.tag) ELSE in_q
    /\ UNCHANGED <<variant, outsideVars, teardowns, outVars, offer_task, pipeline, mediaVars,
                   input_tx, worker>>

\* JoinHandle::abort(): a task suspended at an await is dropped without being
\* polled again; a task that is being polled on another runtime thread runs on
\* to its next suspension and is dropped there.
AbortRender(t) == IF t \in {"wait", "pace"} THEN "cancelled" ELSE t

AbortForward(t) == IF t = "recv" THEN "cancelled" ELSE t

\* Cleanup, first part: render_task.abort(); ws_forward_task.abort();
\* (screen: ws_forward_task.abort() only, there is no render task)
\* The JoinHandle of the offer task was dropped when it was spawned: nothing
\* aborts it.  (First, a cleanup that ends the sleeping offer task as well.)
CleanupAbortAll ==
    /\ reader = "cleanup"
    /\ reader' = "closing"
    /\ render_task' = AbortRender(render_task)
    /\ render_abort' = (render_task \in {"render", "push"})
    /\ ws_forward_task' = AbortForward(ws_forward_task)
    /\ fwd_abort' = (ws_forward_task = "send")
    /\ offer_task' = IF offer_task = "sleep" THEN "done" ELSE offer_task
    /\ UNCHANGED <<variant, outsideVars, nrecv, outcome, teardowns,
                   sig_sent, fwd_idx, ws_tx, peer, gst_ops, pipeline, ice_arrived,
                   produced, track, push_errs, inputVars>>

CleanupAbort ==
    /\ reader = "cleanup"
    /\ reader' = "closing"
    /\ render_task' = AbortRender(render_task)
    /\ render_abort' = (render_task \in {"render", "push"})
    /\ ws_forward_task' = AbortForward(ws_forward_task)
    /\ fwd_abort' = (ws_forward_task = "send")
    /\ UNCHANGED <<variant, outsideVars, nrecv, outcome, teardowns,
                   sig_sent, fwd_idx, ws_tx, rtcVars, produced, track, push_errs,
                   inputVars>>

\* Cleanup, second part: streamer.close().await (standalone) or streamer.stop()
\* (screen), then the handler returns and drops input_tx.
CleanupClose ==
    /\ reader = "closing"
    /\ reader' = "done"
    /\ teardowns' = teardowns + 1
    /\ peer' = [peer EXCEPT !.closed = TRUE, !.conn = "closed"]
    /\ pipeline' = IF variant = "screen" THEN "stopped" ELSE pipeline
    /\ gst_ops' = <<>>
    /\ input_tx' = FALSE
    /\ UNCHANGED <<variant, outsideVars, nrecv, outcome, outVars,
                   offer_task, ice_arrived, mediaVars, in_q, worker, arrived,
                   effects>>

\* -------------------------------------------------- signaling messages
Offer == [type |-> "offer", n |-> 0]

Ice(k) == [type |-> "ice", n |-> k]

\* ------------------------------------ the offer task, standalone build
\* tokio::time::sleep(100 ms) is over and WebRtcStreamer::create_offer runs
\*     let offer = self.peer_connection.create_offer(None).await?;
\*     self.peer_connection.set_local_description(offer.clone()).await?;
\* Either call fails on a closed connection (ok: any other failure).  When
\* set_local_description returns, the offer is the pending local description
\* and the ICE gatherer has been started.
OfferSetLocal ==
    /\ variant = "standalone"
    /\ offer_task = "sleep"
    /\ \E ok \in BOOLEAN :
         IF ok /\ ~peer.closed
         THEN /\ offer_task' = "gather"
              /\ peer' = [peer EXCEPT !.local = TRUE,
                                      !.signaling = "have-local-offer",
                                      !.gathering = "gathering"]
         ELSE /\ offer_task' = "done"
              /\ peer' = peer
    /\ UNCHANGED <<variant, outsideVars, readerVars, outVars, gst_ops, pipeline, ice_arrived,
                   mediaVars, inputVars>>

\* on_ice_candidate(Some(c)) / webrtcbin "on-ice-candidate": the handler sends
\* an Ice message on its clone of outgoing_tx
IceCandidate ==
    /\ peer.gathering = "gathering"
    /\ ~peer.closed
    /\ peer.gathered < MaxCand
    /\ peer' = [peer EXCEPT !.gathered = @ + 1]
    /\ sig_sent' = SigSend(Ice(peer.gathered + 1))
    /\ UNCHANGED <<variant, outsideVars, readerVars, fwd_idx, ws_tx, ws_forward_task, fwd_abort,
                   offer_task, gst_ops, pipeline, ice_arrived, mediaVars, inputVars>>

\* gathering ends: on_ice_candidate(None), the gathering-complete promise fires
GatherComplete ==
    /\ peer.gathering = "gathering"
    /\ peer' = [peer EXCEPT !.gathering = "complete"]
    /\ UNCHANGED <<variant, outsideVars, readerVars, outVars, offer_task, gst_ops, pipeline,
                   ice_arrived, mediaVars, inputVars>>

\* gather_complete.recv() returned; local_description() is Some, the Offer is
\* sent on outgoing_tx and create_offer returns Ok
OfferSend ==
    /\ offer_task = "gather"
    /\ peer.gathering = "complete"
    /\ offer_task' = "done"
    /\ sig_sent' = SigSend(Offer)
    /\ UNCHANGED <<variant, outsideVars, readerVars, fwd_idx, ws_tx, ws_forward_task, fwd_abort,
                   peer, gst_ops, pipeline, ice_arrived, mediaVars, inputVars>>

\* ---------------------------------------- the offer task, screen build
\* tokio::time::sleep(500 ms) is over; ScreenStreamer::create_offer emits
\* "create-offer" with a promise and returns.  A webrtcbin that is no longer
\* running does not take the operation.
ScreenOffer ==
    /\ variant = "screen"
    /\ offer_task = "sleep"
    /\ offer_task' = "done"
    /\ gst_ops' = IF pipeline = "playing"
                  THEN Append(gst_ops, [op |-> "create-offer", id |-> 0])
                  ELSE gst_ops
    /\ UNCHANGED <<variant, outsideVars, readerVars, outVars, peer, pipeline, ice_arrived,
                   mediaVars, inputVars>>

\* webrtcbin's thread runs the operation at the head of its queue.
\*   create-offer: the promise's change func runs on this thread; on a reply it
\*       emits "set-local-description" (queued behind) and sends the Offer
\*   set-local:    the offer becomes the local description, gathering starts
\*   set-remote:   an answer is installed only while a local offer is pending;
\*       the candidates held back are then added
\*   add-ice:      added when both descriptions are set, held back otherwise
GstExec ==
    /\ pipeline = "playing"
    /\ gst_ops /= <<>>
    /\ LET o == Head(gst_ops)
           rest == Tail(gst_ops)
       IN  CASE o.op = "create-offer" ->
                  \E reply \in BOOLEAN :
                     /\ gst_ops' = IF reply
                                   THEN Append(rest, [op |-> "set-local", id |-> 0])
                                   ELSE rest
                     /\ sig_sent' = IF reply THEN SigSend(Offer) ELSE sig_sent
                     /\ peer' = peer
             [] o.op = "set-local" ->
                  /\ gst_ops' = rest
                  /\ sig_sent' = sig_sent
                  /\ peer' = [peer EXCEPT !.local = TRUE,
                                          !.signaling = "have-local-offer",
                                          !.gathering = "gathering"]
             [] o.op = "set-remote" ->
                  /\ gst_ops' = rest
                  /\ sig_sent' = sig_sent
                  /\ peer' = IF peer.signaling = "have-local-offer"
                             THEN [peer EXCEPT !.remote = TRUE,
                                               !.signaling = "stable",
                                               !.applied = @ \cup peer.pending,
                                               !.pending = {}]
                             ELSE peer
             [] o.op = "add-ice" ->
                  /\ gst_ops' = rest
                  /\ sig_sent' = sig_sent
                  /\ peer' = IF peer.local /\ peer.remote
                             THEN [peer EXCEPT !.applied = @ \cup {o.id}]
                             ELSE [peer EXCEPT !.pending = @ \cup {o.id}]
    /\ UNCHANGED <<variant, outsideVars, readerVars, fwd_idx, ws_tx, ws_forward_task, fwd_abort,
                   offer_task, pipeline, ice_arrived, mediaVars, inputVars>>

\* ----------------------------------------------- connection state changes
\* The states the connection can move to once both descriptions are set: the
\* ICE checks succeed or fail, connectivity is lost, comes back or is given up.
ConnAfter(c) ==
    CASE c = "new"          -> {"connected", "failed"}
      [] c = "connected"    -> {"disconnected"}
      [] c = "disconnected" -> {"connected", "failed"}
      [] OTHER              -> {}

\* on_ice_connection_state_change / on_peer_connection_state_change (webrtc-rs)
\* and the notify::ice-connection-state / notify::connection-state handlers
\* (webrtcbin): each logs the new state and returns
PeerStateChange ==
    /\ peer.local /\ peer.remote /\ ~peer.closed
    /\ \E c \in ConnAfter(peer.conn) : peer' = [peer EXCEPT !.conn = c]
    /\ UNCHANGED <<variant, outsideVars, readerVars, outVars, offer_task, gst_ops, pipeline,
                   ice_arrived, mediaVars, inputVars>>

\* ------------------------------------------------------ ws_forward_task
\* sig_rx.recv().await returns Some(msg): the task was suspended and is polled
ForwardRecv ==
    /\ ws_forward_task = "recv"
    /\ fwd_idx < Len(sig_sent)
    /\ ws_forward_task' = "send"
    /\ fwd_idx' = fwd_idx + 1
    /\ UNCHANGED <<variant, outsideVars, readerVars, sig_sent, ws_tx, fwd_abort, rtcVars,
                   mediaVars, inputVars>>

\* ws_tx.send(Message::Text(json)).await : written (sent), or Err and `break`.
\* After a write the loop is back at recv().  An aborted task is still in the
\* poll abort() found it in: a send that suspends is never resumed (dropped),
\* and after a write recv() either hands it the next queued message at once
\* or suspends, which ends the task.
ForwardSend ==
    /\ ws_forward_task = "send"
    /\ \E res \in {"sent", "err", "dropped"} :
         /\ res = "dropped" => fwd_abort
         /\ ws_tx' = IF res = "sent" THEN Append(ws_tx, sig_sent[fwd_idx]) ELSE ws_tx
         /\ LET more == fwd_abort /\ res = "sent" /\ fwd_idx < Len(sig_sent)
            IN  /\ fwd_idx' = IF more THEN fwd_idx + 1 ELSE fwd_idx
                /\ ws_forward_task' =
                      CASE res = "err" -> "exited"
                        [] res = "dropped" -> "cancelled"
                        [] more -> "send"
                        [] fwd_abort -> "cancelled"
                        [] OTHER -> "recv"
    /\ UNCHANGED <<variant, outsideVars, readerVars, sig_sent, fwd_abort, rtcVars, mediaVars,
                   inputVars>>

\* ---------------------------------------- render_task, standalone build
\* a sleep is over (the 500 ms start-up wait or the frame pacing) and the task
\* is polled again
RenderWake ==
    /\ render_task \in {"wait", "pace"}
    /\ produced < MaxRender
    /\ render_task' = "render"
    /\ UNCHANGED <<variant, outsideVars, readerVars, outVars, rtcVars, render_abort, produced,
                   track, push_errs, inputVars>>

\* renderer.render_frame().await : Ok(rgba_data), or Err and `break`
RenderFrame ==
    /\ render_task = "render"
    /\ \E ok \in BOOLEAN :
         /\ render_task' = IF ok THEN "push" ELSE "exited"
         /\ produced' = IF ok THEN produced + 1 ELSE produced
    /\ UNCHANGED <<variant, outsideVars, readerVars, outVars, rtcVars, render_abort, track,
                   push_errs, inputVars>>

\* where the loop is after a successful push_frame: suspended in the pacing
\* sleep (an aborted task is dropped there), or, when the iteration already
\* took frame_duration or longer, straight into the next render_frame
AfterPush(sleeps) ==
    IF sleeps \/ produced >= MaxRender
    THEN IF render_abort THEN "cancelled" ELSE "pace"
    ELSE "render"

\* what the OpenH264 encoder gives for a frame: an error, or a bitstream of
\* some length, possibly none (the encoder withholds output)
EncoderOutputs ==
    {[ok |-> FALSE, len |-> 0], [ok |-> TRUE, len |-> 0], [ok |-> TRUE, len |-> 1]}

\* an encode that hands on whatever bitstream it got
encodeForwardsEmpty(out) == IF ~out.ok THEN "err" ELSE "data"

\* H264Encoder::encode: Err, Ok(None) for an empty bitstream, Ok(Some(data))
encode(out) ==
    IF ~out.ok THEN "err" ELSE IF out.len = 0 THEN "empty" ELSE "data"

\* a track that puts the newest sample in front
WriteSampleFirst(t, frame) == <<frame>> \o t

\* video_track.write_sample(&sample): the track after the sample of the frame
WriteSample(t, frame) == Append(t, frame)

\* streamer_render.push_frame(&rgba_data).await
\*   out: what the encoder made of the frame
\*   wr:  what video_track.write_sample returned, when it is called
PushFrameWith(out, wr, sleeps) ==
    /\ render_task = "push"
    /\ LET enc == encode(out)
       IN  /\ enc /= "data" => wr
           /\ track' = IF enc = "data" /\ wr THEN WriteSample(track, produced) ELSE track
           /\ render_task' = IF enc = "err" \/ ~wr THEN "exited" ELSE AfterPush(sleeps)
           /\ push_errs' = IF enc = "err" \/ ~wr THEN push_errs + 1 ELSE push_errs
    /\ UNCHANGED <<variant, outsideVars, readerVars, outVars, rtcVars, render_abort, produced,
                   inputVars>>

PushFrame ==
    \E out \in EncoderOutputs, wr \in BOOLEAN, sleeps \in BOOLEAN :
        PushFrameWith(out, wr, sleeps)

\* ------------------------------------------- input thread, screen build
\* InputController::new(): Enigo::new(..).expect(..) returns or panics; a panic
\* ends the thread and drops the receiver with everything queued in it
WorkerInit ==
    /\ worker = "init"
    /\ \E ok \in BOOLEAN :
         /\ worker' = IF ok THEN "recv" ELSE "dead"
         /\ in_q' = IF ok THEN in_q ELSE <<>>
    /\ UNCHANGED <<variant, outsideVars, readerVars, outVars, rtcVars, mediaVars, input_tx,
                   arrived, effects>>

\* InputController::handle_event for the pointer events of the model, as the
\* calls made on enigo: mouse_move moves; mouse_down and mouse_up move, then
\* press / release the button (button 0, the left one); the others make none
handle_event(e) ==
    CASE e = "mouse_move" -> << <<"os", "move">> >>
      [] e = "mouse_down" -> << <<"os", "move">>, <<"os", "press">> >>
      [] e = "mouse_up"   -> << <<"os", "move">>, <<"os", "release">> >>
      [] OTHER -> << >>

\* a receiver handing out the newest queued event
NextEventNewest(q) == Len(q)

\* which queued event blocking_recv() hands out: the oldest
NextEvent(q) == 1

\* while let Some(event) = rx.blocking_recv() { controller.handle_event(&event) }
WorkerRecv ==
    /\ worker = "recv"
    /\ in_q /= <<>>
    /\ LET i == NextEvent(in_q)
       IN  /\ effects' = effects \o handle_event(in_q[i])
           /\ in_q' = SubSeq(in_q, 1, i - 1) \o SubSeq(in_q, i + 1, Len(in_q))
    /\ UNCHANGED <<variant, outsideVars, readerVars, outVars, rtcVars, mediaVars, input_tx,
                   worker, arrived>>

\* blocking_recv() returns None: the channel is empty and input_tx is dropped
WorkerExit ==
    /\ worker = "recv"
    /\ in_q = <<>>
    /\ ~input_tx
    /\ worker' = "exited"
    /\ UNCHANGED <<variant, outsideVars, readerVars, outVars, rtcVars, mediaVars, input_tx,
                   in_q, arrived, effects>>

\* ------------------------------------------------------------ the system
Next ==
    \/ Construct
    \/ \E f \in ClientFrames(variant) : ReadFrame(f)
    \/ CleanupAbort
    \/ CleanupClose
    \/ OfferSetLocal
    \/ IceCandidate
    \/ GatherComplete
    \/ OfferSend
    \/ ScreenOffer
    \/ GstExec
    \/ PeerStateChange
    \/ ForwardRecv
    \/ ForwardSend
    \/ RenderWake
    \/ RenderFrame
    \/ PushFrame
    \/ WorkerInit
    \/ WorkerRecv
    \/ WorkerExit

Spec == Init /\ [][Next]_vars

\* Every step but the reader's is taken by the server itself: a spawned task
\* that can run is run by the tokio runtime, the input thread by the OS,
\* webrtcbin's queue by webrtcbin's thread, and the cleanup follows the loop's
\* exit in the same task.  Whether another frame arrives is up to the client, and
\* whether the connection changes state is up to the network.
ServerStep ==
    \/ Construct
    \/ CleanupAbort
    \/ CleanupClose
    \/ OfferSetLocal
    \/ IceCandidate
    \/ GatherComplete
    \/ OfferSend
    \/ ScreenOffer
    \/ GstExec
    \/ ForwardRecv
    \/ ForwardSend
    \/ RenderWake
    \/ RenderFrame
    \/ PushFrame
    \/ WorkerInit
    \/ WorkerRecv
    \/ WorkerExit

FairSpec == Spec /\ WF_vars(ServerStep)

\* ------------------------------------------------------- the renderer
\* One reader loop or another calls renderer.handle_input(&input): the camera
\* is updated under its write lock
HandleInput(e) ==
    /\ Len(cam_log) < MaxEvents
    /\ camera' = handle_input(camera, e)
    /\ cam_log' = Append(cam_log, e.type)
    /\ cam_hist' = Append(cam_hist, camera')
    /\ UNCHANGED <<in_flight, frame_cam, sessionVars, controllerVars, encoderVars, yuvVars>>

\* a render_frame that takes the focal point from a copy made at start-up
view_projStaleFocus(c) ==
    [eye    |-> [azimuth |-> c.azimuth, elevation |-> c.elevation, distance |-> c.distance],
     target |-> DefaultCamera.focal_point,
     fov    |-> c.fov]

\* render_frame, first block: with the camera's read lock held,
\*     camera.projection_matrix(aspect) * camera.view_matrix()
\* The matrix is kept as the camera values it is computed from: the eye
\* position is a function of azimuth, elevation, distance and focal point, the
\* target is the focal point and the projection is a function of fov.
view_proj(c) ==
    [eye    |-> [azimuth |-> c.azimuth, elevation |-> c.elevation, distance |-> c.distance],
     target |-> c.focal_point,
     fov    |-> c.fov]

\* (first, a server in which only the first session renders from the camera
\* the input events reach, and every other one from a camera of its own)
RenderSubmitOwnCamera(s) ==
    /\ ~in_flight[s]
    /\ in_flight' = [in_flight EXCEPT ![s] = TRUE]
    /\ frame_cam' = [frame_cam EXCEPT
                        ![s] = <<view_proj(IF s = 1 THEN camera ELSE DefaultCamera)>>]
    /\ UNCHANGED <<camera, cam_log, cam_hist, sessionVars, controllerVars, encoderVars, yuvVars>>

\* The render task of session s enters render_frame(&self) on the shared
\* Arc<HorizonRenderer>: uniforms written, commands submitted, map_async on
\* output_buffer, device.poll(Wait).  Nothing in render_frame or around the
\* call excludes the render task of another session.
RenderSubmit(s) ==
    /\ ~in_flight[s]
    /\ in_flight' = [in_flight EXCEPT ![s] = TRUE]
    /\ frame_cam' = [frame_cam EXCEPT ![s] = <<view_proj(camera)>>]
    /\ UNCHANGED <<camera, cam_log, cam_hist, sessionVars, controllerVars, encoderVars, yuvVars>>

\* render_frame of session s copies the mapped rows out, unmaps output_buffer
\* and returns
RenderReadback(s) ==
    /\ in_flight[s]
    /\ in_flight' = [in_flight EXCEPT ![s] = FALSE]
    /\ frame_cam' = [frame_cam EXCEPT ![s] = <<>>]
    /\ UNCHANGED <<camera, cam_log, cam_hist, sessionVars, controllerVars, encoderVars, yuvVars>>

RendererNext ==
    \/ \E e \in CameraEvents : HandleInput(e)
    \/ \E s \in Sessions : RenderSubmit(s)
    \/ \E s \in Sessions : RenderReadback(s)

\* the renderer of the standalone build and the sessions using it, seen from
\* the renderer: the events applied to its camera and the render_frame calls
RendererInit == Init /\ variant = "standalone"

RendererSpec == RendererInit /\ [][RendererNext]_vars

\* ------------------------------------------- the input controller (enigo)
\* A key string as the client sends it in `key`: its text, the number of
\* characters in it and its length in bytes, which is what str::len() gives.
Keys ==
    {[text |-> "a",       chars |-> 1, bytes |-> 1],
     [text |-> "e-acute", chars |-> 1, bytes |-> 2],
     [text |-> " ",       chars |-> 1, bytes |-> 1],
     [text |-> "Enter",   chars |-> 5, bytes |-> 5],
     [text |-> "F5",      chars |-> 2, bytes |-> 2],
     [text |-> "Insert",  chars |-> 6, bytes |-> 6]}

Key(t) == CHOOSE k \in Keys : k.text = t

\* struct Modifiers
Mods(shift, ctrl, alt, meta) ==
    [shift |-> shift, ctrl |-> ctrl, alt |-> alt, meta |-> meta]

NoMods == Mods(FALSE, FALSE, FALSE, FALSE)

AllMods == [{"shift", "ctrl", "alt", "meta"} -> BOOLEAN]

\* the events the modelled client sends to the screen build
ControllerEvents ==
    {[type |-> t, button |-> b, x |-> 100, y |-> 200] :
        t \in {"mouse_down", "mouse_up"}, b \in {0, 1, 2, 3, 255}}
    \cup {[type |-> "mouse_move", x |-> 100, y |-> 200]}
    \cup {[type |-> "scroll", dx |-> 0, dy |-> d] :
             d \in {6, -16, 4, -4, 5, -5, 10, -25, 14}}
    \cup {[type |-> "scroll", dx |-> 30, dy |-> d] : d \in {0, 4}}
    \cup {[type |-> "key_down", key |-> Key(k), modifiers |-> m] :
             k \in {"a", "Enter"}, m \in AllMods}
    \cup {[type |-> "key_down", key |-> k, modifiers |-> m] :
             k \in Keys, m \in {NoMods, Mods(FALSE, TRUE, FALSE, FALSE)}}
    \cup {[type |-> "key_up", key |-> Key("a"), modifiers |-> m] :
             m \in {NoMods, Mods(TRUE, TRUE, TRUE, TRUE)}}
    \cup {[type |-> "key_up", key |-> Key("Enter"), modifiers |-> NoMods]}

\* a button table that takes an unknown code for the right button
button_ofUnknownRight(code) ==
    CASE code = 0 -> "Left"
      [] code = 1 -> "Middle"
      [] code = 2 -> "Right"
      [] OTHER    -> "Right"

\* match button { 0 => Left, 1 => Middle, 2 => Right, _ => Left }
button_of(code) ==
    CASE code = 0 -> "Left"
      [] code = 1 -> "Middle"
      [] code = 2 -> "Right"
      [] OTHER    -> "Left"

\* a conversion to i32 that rounds away from zero
CeilToI32(num, den) ==
    IF num >= 0 THEN (num + den - 1) \div den ELSE -((-num + den - 1) \div den)

\* (num / den) as i32, for den > 0: the fraction is dropped (towards zero)
TruncToI32(num, den) ==
    IF num >= 0 THEN num \div den ELSE -((-num) \div den)

\* the named-key table of map_key
NamedKeys ==
    [Enter |-> "Return", Escape |-> "Escape", Backspace |-> "Backspace",
     Tab |-> "Tab", ArrowUp |-> "UpArrow", ArrowDown |-> "DownArrow",
     ArrowLeft |-> "LeftArrow", ArrowRight |-> "RightArrow", Delete |-> "Delete",
     Home |-> "Home", End |-> "End", PageUp |-> "PageUp", PageDown |-> "PageDown",
     F1 |-> "F1", F2 |-> "F2", F3 |-> "F3", F4 |-> "F4", F5 |-> "F5", F6 |-> "F6",
     F7 |-> "F7", F8 |-> "F8", F9 |-> "F9", F10 |-> "F10", F11 |-> "F11",
     F12 |-> "F12", CapsLock |-> "CapsLock"]

\* map_key: Some(key) or None
map_key(key) ==
    CASE key.text \in DOMAIN NamedKeys -> [some |-> TRUE, kind |-> "named", name |-> NamedKeys[key.text]]
      [] key.text = " "    -> [some |-> TRUE, kind |-> "named", name |-> "Space"]
      [] key.bytes = 1     -> [some |-> TRUE, kind |-> "unicode", name |-> key.text]
      [] OTHER             -> [some |-> FALSE, kind |-> "none", name |-> ""]

\* a handler that stops at the first modifier of the list that is set
ModifierCallsFirstOnly(order, m, dir) ==
    LET set == SelectSeq(order, LAMBDA name : m[name])
        keyOf == [meta |-> "Meta", ctrl |-> "Control", alt |-> "Alt", shift |-> "Shift"]
    IN  [i \in 1..(IF set = <<>> THEN 0 ELSE 1) |->
            <<"key", [some |-> TRUE, kind |-> "named", name |-> keyOf[set[i]]], dir>>]

\* enigo.key(Key::<m>, dir) for each modifier of the list that is set
ModifierCalls(order, m, dir) ==
    LET set == SelectSeq(order, LAMBDA name : m[name])
        keyOf == [meta |-> "Meta", ctrl |-> "Control", alt |-> "Alt", shift |-> "Shift"]
    IN  [i \in 1..Len(set) |->
            <<"key", [some |-> TRUE, kind |-> "named", name |-> keyOf[set[i]]], dir>>]

\* InputController::handle_event, KeyDown arm
key_down(key, m) ==
    IF key.bytes = 1 /\ ~m.ctrl /\ ~m.alt /\ ~m.meta
    THEN << <<"text", key.text>> >>
    ELSE IF map_key(key).some
    THEN ModifierCalls(<<"meta", "ctrl", "alt", "shift">>, m, "Press")
         \o << <<"key", map_key(key), "Click">> >>
         \o ModifierCalls(<<"shift", "alt", "ctrl", "meta">>, m, "Release")
    ELSE << >>

\* InputController::handle_event: the calls made on enigo for the event ev,
\* in order (the result of each call is discarded)
InputController_handle_event(ev) ==
    CASE ev.type = "mouse_move" -> << <<"move_mouse", ev.x, ev.y>> >>
      [] ev.type = "mouse_down" ->
            << <<"move_mouse", ev.x, ev.y>>, <<"button", button_of(ev.button), "Press">> >>
      [] ev.type = "mouse_up" ->
            << <<"move_mouse", ev.x, ev.y>>, <<"button", button_of(ev.button), "Release">> >>
      [] ev.type = "scroll" ->
            LET amount == TruncToI32(-ev.dy, 10)
            IN  IF amount /= 0 THEN << <<"scroll", amount, "Vertical">> >> ELSE << >>
      [] ev.type = "key_down" -> key_down(ev.key, ev.modifiers)
      [] OTHER -> << >>

\* controller.handle_event(&event) in the input thread
ControllerEvent(ev) ==
    /\ Len(ctl_events) < MaxInputs
    /\ ctl_events' = Append(ctl_events, ev)
    /\ ctl_calls' = Append(ctl_calls, InputController_handle_event(ev))
    /\ UNCHANGED <<sessionVars, rendererVars, encoderVars, yuvVars>>

ControllerNext == \E ev \in ControllerEvents : ControllerEvent(ev)

\* the input thread of the screen build with its controller constructed
ControllerInit == Init /\ variant = "screen"

ControllerSpec == ControllerInit /\ [][ControllerNext]_vars

\* ------------------------------------------------- encoder selection
\* the GStreamer element factories create_encoder asks for
Encoders == {"vtenc_h264", "nvh264enc", "vaapih264enc", "qsvh264enc", "x264enc"}

\* ScreenStreamer::create_encoder: the factories in the order it tries them
ScreenEncoderOrder == <<"vtenc_h264", "nvh264enc", "vaapih264enc", "qsvh264enc", "x264enc">>

\* WebRtcStreamer::create_encoder of streamer/mod.rs: likewise
GstEncoderOrder == <<"nvh264enc", "vaapih264enc", "vtenc_h264", "x264enc">>

EncoderBuilds == {"screen_capture", "streamer"}

EncoderOrder(build) == IF build = "screen_capture" THEN ScreenEncoderOrder ELSE GstEncoderOrder

\* the chain of `if let Ok(enc) = ElementFactory::make(..).build() { return Ok(enc) }`
\* from the i-th candidate on; the last candidate is built with `?`, so its
\* failure is the function's Err.  avail: the factories that build.
RECURSIVE probe(_, _, _)
probe(order, i, avail) ==
    IF order[i] \in avail THEN [ok |-> TRUE, enc |-> order[i]]
    ELSE IF i = Len(order) THEN [ok |-> FALSE, enc |-> "none"]
    ELSE probe(order, i + 1, avail)

\* a selection that keeps probing and returns the last element that builds
create_encoderLast(order, avail) ==
    LET built == {i \in DOMAIN order : order[i] \in avail}
    IN  IF built = {}
        THEN [ok |-> FALSE, enc |-> "none"]
        ELSE [ok |-> TRUE, enc |-> order[CHOOSE i \in built : \A j \in built : j <= i]]

\* create_encoder
create_encoder(order, avail) == probe(order, 1, avail)

\* A streamer is constructed and calls create_encoder, on a machine where the
\* factories in avail build
CreateEncoder(build, avail) ==
    /\ Len(enc_probes) < MaxProbes
    /\ enc_probes' = Append(enc_probes,
                            [build  |-> build,
                             avail  |-> avail,
                             result |-> create_encoder(EncoderOrder(build), avail)])
    /\ UNCHANGED <<sessionVars, rendererVars, controllerVars, yuvVars>>

EncoderNext == \E build \in EncoderBuilds, avail \in SUBSET Encoders : CreateEncoder(build, avail)

\* streamers being constructed one after another
EncoderSpec == Init /\ [][EncoderNext]_vars

\* ------------------------------------------------ RGBA to YUV 4:2:0
\* u8
Bytes == 0..255

\* `x >> 8` on an i32: the arithmetic shift rounds towards minus infinity
Shr8(x) == IF x >= 0 THEN x \div 256 ELSE -((-x + 255) \div 256)

\* `x as u8` on an i32 keeps the low eight bits
AsU8(x) == x % 256

\* a luma formula for the full range: other coefficients, no offset
y_valFullRange(r, g, b) == Shr8(77 * r + 150 * g + 29 * b + 128)

\* let y_val = ((66 * r + 129 * g + 25 * b + 128) >> 8) + 16;
y_val(r, g, b) == Shr8(66 * r + 129 * g + 25 * b + 128) + 16

\* let u_val = ((-38 * r - 74 * g + 112 * b + 128) >> 8) + 128;
u_val(r, g, b) == Shr8(-38 * r - 74 * g + 112 * b + 128) + 128

\* let v_val = ((112 * r - 94 * g - 18 * b + 128) >> 8) + 128;
v_val(r, g, b) == Shr8(112 * r - 94 * g - 18 * b + 128) + 128

\* a chroma index that takes the luma width for the row stride
uv_idxLumaStride(row, col, width) == (row \div 2) * width + (col \div 2)

\* let uv_idx = (row / 2) * (width / 2) + (col / 2);
uv_idx(row, col, width) == (row \div 2) * (width \div 2) + (col \div 2)

\* Yuv420Buffer::new: planes of width*height, width*height/4 and
\* width*height/4 bytes, indexed from 0; with them, how often from_rgba has
\* written each element and from which pixel it wrote each chroma element
Yuv420Buffer_new(width, height) ==
    [width     |-> width,
     height    |-> height,
     y         |-> [i \in 0..(width * height - 1) |-> 0],
     u         |-> [i \in 0..((width * height) \div 4 - 1) |-> 128],
     v         |-> [i \in 0..((width * height) \div 4 - 1) |-> 128],
     y_writes  |-> [i \in 0..(width * height - 1) |-> 0],
     uv_writes |-> [i \in 0..((width * height) \div 4 - 1) |-> 0],
     uv_from   |-> [i \in 0..((width * height) \div 4 - 1) |-> -1],
     panicked  |-> FALSE]

\* The body of `for row in 0..height { for col in 0..width { .. } }` for the
\* k-th pixel in row-major order, k = row * width + col.  rgba is indexed from
\* 0.  An index outside a slice or a Vec panics: the conversion ends there.
RECURSIVE from_rgba_loop(_, _, _, _, _)
from_rgba_loop(rgba, width, height, k, buf) ==
    IF k = width * height \/ buf.panicked THEN buf
    ELSE
      LET row      == k \div width
          col      == k % width
          rgba_idx == (row * width + col) * 4
      IN  IF rgba_idx + 2 \notin DOMAIN rgba \/ (row * width + col) \notin DOMAIN buf.y
          THEN [buf EXCEPT !.panicked = TRUE]
          ELSE
            LET r  == rgba[rgba_idx]
                g  == rgba[rgba_idx + 1]
                b  == rgba[rgba_idx + 2]
                b1 == [buf EXCEPT
                         !.y[row * width + col] = AsU8(clamp(y_val(r, g, b), 0, 255)),
                         !.y_writes[row * width + col] = @ + 1]
                i  == uv_idx(row, col, width)
                b2 == IF col % 2 = 0 /\ row % 2 = 0
                      THEN IF i \notin DOMAIN buf.u
                           THEN [b1 EXCEPT !.panicked = TRUE]
                           ELSE [b1 EXCEPT
                                   !.u[i] = AsU8(clamp(u_val(r, g, b), 0, 255)),
                                   !.v[i] = AsU8(clamp(v_val(r, g, b), 0, 255)),
                                   !.uv_writes[i] = @ + 1,
                                   !.uv_from[i] = row * width + col]
                      ELSE b1
            IN  from_rgba_loop(rgba, width, height, k + 1, b2)

\* Yuv420Buffer::from_rgba
from_rgba(rgba, width, height) ==
    from_rgba_loop(rgba, width, height, 0, Yuv420Buffer_new(width, height))

\* impl YUVSource for Yuv420Buffer: strides()
strides(buf) == <<buf.width, buf.width \div 2, buf.width \div 2>>

\* What render_frame hands to push_frame: width * height * 4 bytes, R, G, B, A
\* for each pixel in row-major order.  The frame numbered seed has a different
\* colour in every pixel.
Frame(width, height, seed) ==
    [n \in 0..(width * height * 4 - 1) |->
        LET k == n \div 4
        IN  CASE n % 4 = 0 -> (29 * seed + 37 * k) % 256
              [] n % 4 = 1 -> (50 + 3 * seed + 101 * k) % 256
              [] n % 4 = 2 -> (1279 - 7 * seed - 13 * k) % 256
              [] OTHER     -> 255]

\* H264Encoder::encode converts the frame it is given; width and height are
\* those the process was started with (WIDTH, HEIGHT), the renderer's too
Encode(width, height, seed) ==
    /\ yuv' = <<[width  |-> width,
                 height |-> height,
                 rgba   |-> Frame(width, height, seed),
                 out    |-> from_rgba(Frame(width, height, seed), width, height)]>>
    /\ UNCHANGED <<px, sessionVars, rendererVars, controllerVars, encoderVars>>

YuvNext == \E width \in 1..MaxDim, height \in 1..MaxDim, seed \in 0..MaxSeed : Encode(width, height, seed)

\* the encoder of the standalone build before its first frame
YuvInit == Init /\ variant = "standalone"

\* frames converted one after another
YuvSpec == YuvInit /\ [][YuvNext]_vars

\* from_rgba reaches a pixel whose red value is r
ConvertPixel(r) ==
    /\ px' = <<r>>
    /\ UNCHANGED <<yuv, sessionVars, rendererVars, controllerVars, encoderVars>>

PixelNext == \E r \in Bytes : ConvertPixel(r)

\* the pixels converted, by their red value
PixelSpec == YuvInit /\ [][PixelNext]_vars

\* ======================================================================
\* Properties
\* ======================================================================

\* everything of a session but the reader's own position and frame count
sessionState == <<variant, teardowns, outVars, rtcVars, mediaVars, inputVars>>

HasOffer(msgs) == \E i \in DOMAIN msgs : msgs[i].type = "offer"

\* the effects one input event causes when it is applied
EffectOf(v, e) == IF v = "standalone" THEN << <<"camera", e>> >> ELSE handle_event(e)

RECURSIVE EffectsOf(_, _)
EffectsOf(v, evs) ==
    IF evs = <<>> THEN <<>> ELSE EffectOf(v, Head(evs)) \o EffectsOf(v, Tail(evs))

\* C1: in the messages the outbound channel accepted, in order, every ice
\* message has the session's offer before it.
C1_OfferPrecedesIce ==
    \A i \in DOMAIN sig_sent :
        sig_sent[i].type = "ice" => HasOffer(SubSeq(sig_sent, 1, i - 1))

\* C2: a sample is on the video track only when set_local_description(offer)
\* has returned (the local description, once set, stays set).
C2_NoSampleBeforeLocalDescription == track /= <<>> => peer.local

\* C3: a remote description is installed only when the server has already
\* sent its offer on this session.
C3_AnswerAfterOffer == peer.remote => HasOffer(sig_sent)

\* C4: once an answer is installed and the peer connection has nothing left
\* to do, every inbound candidate received so far has been applied, those
\* received before the answer included.
C4_EarlyCandidatesApplied ==
    (reader = "loop" /\ peer.remote /\ gst_ops = <<>>)
        => \A id \in 1..ice_arrived : id \in peer.applied

\* C5: the effects of input events happen in arrival order: what has
\* happened so far is what the first k arrived events cause, in order, for
\* some k; and with the input thread alive, the events still queued are the
\* rest, in order.
C5_InputOrder ==
    /\ \E k \in 0..Len(arrived) : effects = EffectsOf(variant, SubSeq(arrived, 1, k))
    /\ (variant = "screen" /\ worker \in {"recv", "exited"})
          => effects \o EffectsOf(variant, in_q) = EffectsOf(variant, arrived)

\* C5 witness: mouse_down then mouse_up have both been applied by the input
\* thread: move, press, move, release.
C5_Witness ==
    /\ variant = "screen"
    /\ arrived = <<"mouse_down", "mouse_up">>
    /\ effects = << <<"os", "move">>, <<"os", "press">>,
                    <<"os", "move">>, <<"os", "release">> >>

\* C6: a text frame has exactly one outcome: signaling when it decodes as a
\* signaling message, else input when it decodes as an input event, else the
\* warning.  The warning changes nothing of the session and leaves it open,
\* and an answer read while a local offer is pending is installed (standalone)
\* or handed to webrtcbin (screen).
C6_Dispatch ==
    [][\A f \in ClientFrames(variant) :
         (ReadFrame(f) /\ f.kind = "text") =>
            /\ (outcome' = "signaling") <=> ParseSignaling(f)
            /\ (outcome' = "input") <=> (~ParseSignaling(f) /\ ParseInput(variant, f))
            /\ (outcome' = "unknown") <=> (~ParseSignaling(f) /\ ~ParseInput(variant, f))
            /\ outcome' /= "signaling" => UNCHANGED <<peer, gst_ops, ice_arrived>>
            /\ outcome' /= "input" => UNCHANGED <<arrived, in_q, effects>>
            /\ outcome' = "unknown" => (reader' = "loop" /\ UNCHANGED sessionState)
            /\ (f.tag = "answer" /\ f.wf /\ f.ok /\ variant = "standalone"
                  /\ peer.signaling = "have-local-offer")
                  => peer'.remote
            /\ (f.tag = "answer" /\ f.wf /\ f.ok /\ variant = "screen")
                  => gst_ops' = Append(gst_ops, [op |-> "set-remote", id |-> ice_arrived + 1])
      ]_vars

\* C6 witness: an undecodable text has just been ignored, the session is
\* open, a local offer is pending and the client can still send its answer.
C6_Witness ==
    /\ outcome = "unknown"
    /\ reader = "loop"
    /\ nrecv < MaxFrames
    /\ peer.signaling = "have-local-offer"
    /\ ~peer.remote

\* C7: a Binary, Ping or Pong frame changes nothing of the session and leaves
\* it open; Close, a read error and the end of the stream take the reader out
\* of its loop; and once out, the reader takes no further frame.
C7_Frames ==
    [][
        /\ \A f \in ClientFrames(variant) :
             /\ (ReadFrame(f) /\ f.kind \in {"binary", "ping", "pong"})
                   => (reader' = "loop" /\ UNCHANGED sessionState)
             /\ (ReadFrame(f) /\ f.kind \in {"close", "error", "end"})
                   => reader' = "cleanup"
        /\ (reader \in {"cleanup", "closing", "done", "failed"})
             => (reader' /= "loop" /\ UNCHANGED <<nrecv, outcome>>)
    ]_vars

\* C7 witness: a Binary, Ping or Pong frame has just been skipped and the
\* reader is still in its loop.
C7_Witness ==
    /\ outcome = "skipped"
    /\ reader = "loop"
    /\ nrecv >= 1

\* C8: the teardown of a session runs once, and after it no frame is pushed
\* to the video track and no message is written to the WebSocket.
C8_Teardown ==
    /\ [](reader = "done" => teardowns = 1)
    /\ [][reader = "done" => (track' = track /\ ws_tx' = ws_tx)]_vars

\* C9: an event leaves the input channel only by being applied by the input
\* thread, the oldest first.
C9_WorkerDrains ==
    [][Len(in_q') < Len(in_q)
         => (in_q' = Tail(in_q) /\ effects' = effects \o handle_event(Head(in_q)))]_vars

\* C10: while the session is not being torn down, the render loop (standalone),
\* the outbound write task and the input thread (screen) are all running.
C10_SharedLifetime ==
    reader = "loop" =>
        /\ ws_forward_task \in {"recv", "send"}
        /\ variant = "standalone" => render_task \in {"wait", "render", "push", "pace"}
        /\ variant = "screen" => worker \in {"init", "recv"}

\* C11: once the render loop has ended on a render_frame or push_frame error
\* no further frame is produced or pushed, and the session's teardown follows
\* whether or not the client sends anything more.
C11_MediaErrorEndsSession ==
    /\ [][render_task = "exited" => (produced' = produced /\ track' = track)]_vars
    /\ (render_task = "exited") ~> (reader = "done")

\* C12: a failed push_frame does not by itself end the render loop: the loop
\* ends on a push_frame error only when that error is not the first one.
C12_TransientEncodeError ==
    [][(render_task = "push" /\ render_task' = "exited") => push_errs' >= 2]_vars

\* C13: once the connection state is failed or closed the session is released
\* (its teardown runs and the render loop is no longer running) without the
\* client sending anything more, and a session is never torn down just
\* because the state became disconnected.
C13_FailedReleasesSession ==
    /\ (peer.conn \in {"failed", "closed"})
          ~> (reader = "done" /\ render_task \notin {"wait", "render", "push", "pace"})
    /\ [][(peer.conn' = "disconnected" /\ peer.conn /= "disconnected")
            => UNCHANGED <<readerVars, mediaVars>>]_vars

\* a is an initial segment of b
IsPrefix(a, b) == Len(a) <= Len(b) /\ SubSeq(b, 1, Len(a)) = a

\* C14: while the reader loop runs, the WebSocket has been written the
\* messages the outbound channel accepted, each once and in send order, and
\* none of them is left unwritten by a write task that is gone.
C14_OutboundLossless ==
    reader = "loop" =>
        /\ IsPrefix(ws_tx, sig_sent)
        /\ ~SigRxAlive => ws_tx = sig_sent

\* C15: at most one render_frame call is in flight on the renderer, however
\* many sessions are open.
C15_OneFrameInFlight ==
    Cardinality({s \in Sessions : in_flight[s]}) <= 1

\* the Camera State invariant: elevation in [-89, 89], distance in [1, 20]
CameraInRange(c) ==
    /\ -89 * Scale <= c.elevation /\ c.elevation <= 89 * Scale
    /\ 1 * Scale <= c.distance /\ c.distance <= 20 * Scale

\* C18: from the default camera, after rotate and zoom events only, whatever
\* their arguments, elevation is within [-89, 89] and distance within [1, 20].
C18_RotateZoomInRange ==
    (\A i \in DOMAIN cam_log : cam_log[i] \in {"rotate", "zoom"})
        => CameraInRange(camera)

\* C18 witness: a rotate and a zoom with large arguments have been applied and
\* both fields sit on a clamp bound.
C18_Witness ==
    /\ cam_log = <<"rotate", "zoom">>
    /\ camera.elevation = 89 * Scale
    /\ camera.distance = 1 * Scale

\* C19: in every state of the renderer, whatever input events were applied,
\* elevation is within [-89, 89] and distance within [1, 20].
C19_CameraInvariant == CameraInRange(camera)

\* C20: reset applied to the camera gives azimuth 45, elevation 30, distance 5,
\* focal point (0,0,0), fov 45, whatever was applied before; a second reset
\* changes nothing; and the camera is in that state whenever the event applied
\* last was a reset.
C20_ResetIsDefault ==
    LET d == [azimuth |-> 45 * Scale, elevation |-> 30 * Scale, distance |-> 5 * Scale,
              focal_point |-> <<0, 0, 0>>, fov |-> 45 * Scale]
    IN  /\ reset(camera) = d
        /\ reset(reset(camera)) = reset(camera)
        /\ (cam_log /= <<>> /\ cam_log[Len(cam_log)] = "reset") => camera = d

\* C20 witness: the camera was set to a state far from the default, panned,
\* and then reset.
C20_Witness ==
    /\ cam_log = <<"set_camera", "pan", "reset">>
    /\ camera = DefaultCamera

\* C16: a push_frame call writes a sample to the track only for a non-empty
\* encoder output, then exactly one (the frame just rendered, when the write
\* succeeds), and for an empty output it writes none, returns Ok and leaves
\* the render loop running.
C16_EmptyOutputDropped ==
    [][\A out \in EncoderOutputs, wr \in BOOLEAN, sleeps \in BOOLEAN :
         PushFrameWith(out, wr, sleeps) =>
            /\ (track' /= track) => (out.ok /\ out.len > 0)
            /\ (out.ok /\ out.len > 0 /\ wr) => track' = Append(track, produced)
            /\ Len(track') <= Len(track) + 1
            /\ (out.ok /\ out.len = 0) =>
                  /\ track' = track
                  /\ push_errs' = push_errs
                  /\ render_task' /= "exited"
      ]_vars

\* C16 witness: the first frame was pushed, the encoder withheld its output,
\* nothing was written and the loop went on to its pacing sleep.
C16_Witness ==
    /\ produced = 1
    /\ track = <<>>
    /\ push_errs = 0
    /\ render_task = "pace"

\* C17: the samples on the track are those of distinct frames in the order
\* the frames were rendered; a frame is rendered only when the one before it
\* has been through push_frame; and the frame being pushed is not yet on the
\* track.
C17_NoFrameQueue ==
    /\ [](\A i, j \in DOMAIN track : i < j => track[i] < track[j])
    /\ [](\A i \in DOMAIN track : track[i] \in 1..produced)
    /\ [](render_task = "push" => \A i \in DOMAIN track : track[i] < produced)
    /\ [][produced' /= produced =>
            (render_task = "render" /\ render_task' = "push" /\ produced' = produced + 1)]_vars

\* C17 witness: two frames were rendered and both are on the track, the first
\* before the second.
C17_Witness ==
    /\ produced = 2
    /\ track = <<1, 2>>

\* C21: a set_camera applied right after another set_camera leaves azimuth,
\* elevation, distance and focal point exactly as its own payload gives them,
\* unclamped, whatever the first one wrote; fov is not touched.
C21_SetCameraLastWins ==
    [][\A e \in CameraEvents :
         (/\ HandleInput(e)
          /\ e.type = "set_camera"
          /\ cam_log /= <<>>
          /\ cam_log[Len(cam_log)] = "set_camera")
         => camera' = [azimuth |-> e.azimuth, elevation |-> e.elevation,
                       distance |-> e.distance, focal_point |-> e.focal_point,
                       fov |-> camera.fov]
      ]_vars

\* C21 witness: two set_camera events were applied, the second with an
\* elevation and a distance outside the clamped ranges, and the camera holds
\* the second payload.
C21_Witness ==
    /\ cam_log = <<"set_camera", "set_camera">>
    /\ camera.azimuth = 0
    /\ camera.elevation = 120 * Scale
    /\ camera.distance = 100
    /\ camera.focal_point = <<1 * Scale, 2 * Scale, 3 * Scale>>

\* C22: rotate{dx,dy} adds dx/2 to azimuth, without wrapping or clamping, sets
\* elevation to elevation + dy/2 clamped to [-89, 89] and changes nothing
\* else; from the default camera rotate{0, 500} gives elevation 89 with
\* azimuth still 45.
C22_Rotate ==
    [][\A e \in CameraEvents :
         (HandleInput(e) /\ e.type = "rotate") =>
            /\ 2 * camera'.azimuth = 2 * camera.azimuth + e.dx
            /\ LET v == 2 * camera.elevation + e.dy
               IN  camera'.elevation =
                      IF v < -178 * Scale THEN -89 * Scale
                      ELSE IF v > 178 * Scale THEN 89 * Scale
                      ELSE v \div 2
            /\ camera'.distance = camera.distance
            /\ camera'.focal_point = camera.focal_point
            /\ camera'.fov = camera.fov
            /\ (camera = DefaultCamera /\ e.dx = 0 /\ e.dy = 500 * Scale)
                  => (camera'.elevation = 89 * Scale /\ camera'.azimuth = 45 * Scale)
      ]_vars

\* C22 witness: two full turns were added to the azimuth of the default
\* camera, which is now beyond 360 degrees.
C22_Witness ==
    /\ cam_log = <<"rotate">>
    /\ camera.azimuth = 405 * Scale
    /\ camera.elevation = 40 * Scale

\* C23: zoom{delta} sets distance to distance * (1 - delta/10) clamped to
\* [1, 20] and changes no other field; a delta of 10 or more leaves distance
\* at exactly 1, and a delta of -500 leaves a distance of 1 or more at
\* exactly 20.
C23_Zoom ==
    [][\A e \in CameraEvents :
         (HandleInput(e) /\ e.type = "zoom") =>
            /\ LET raw == (camera.distance * (Scale - e.delta \div 10)) \div Scale
               IN  camera'.distance =
                      IF raw < 1 * Scale THEN 1 * Scale
                      ELSE IF raw > 20 * Scale THEN 20 * Scale
                      ELSE raw
            /\ camera' = [camera EXCEPT !.distance = camera'.distance]
            /\ e.delta >= 10 * Scale => camera'.distance = 1 * Scale
            /\ (e.delta <= -500 * Scale /\ camera.distance >= 1 * Scale)
                  => camera'.distance = 20 * Scale
      ]_vars

\* C24: pan{dx,dy} takes s = 0.002 * distance from the camera as it is when
\* the event is applied, subtracts s*dx from focal_point.x, adds s*dy to
\* focal_point.y and changes nothing else.
C24_Pan ==
    [][\A e \in CameraEvents :
         (HandleInput(e) /\ e.type = "pan") =>
            LET s == (2 * camera.distance) \div Scale
            IN  /\ camera'.focal_point[1] = camera.focal_point[1] - ((e.dx * s) \div Scale)
                /\ camera'.focal_point[2] = camera.focal_point[2] + ((e.dy * s) \div Scale)
                /\ camera'.focal_point[3] = camera.focal_point[3]
                /\ camera' = [camera EXCEPT !.focal_point = camera'.focal_point]
      ]_vars

\* C24 witness: the camera was zoomed in to distance 1 and then panned by
\* (10, -5): the focal point moved by 0.002 times that, not by the 0.01 times
\* of the default distance.
C24_Witness ==
    /\ cam_log = <<"zoom", "pan">>
    /\ camera.distance = 1 * Scale
    /\ camera.focal_point = <<-20, -10, 0>>

\* num / den rounded to the nearest integer, halves away from zero (den > 0)
RoundToI32(num, den) ==
    IF num >= 0 THEN (2 * num + den) \div (2 * den)
    ELSE -((2 * (-num) + den) \div (2 * den))

\* C25: a scroll{dy} makes one vertical scroll call of round(-dy / 10)
\* notches, and no call when that is zero (dy = 6 gives -1, dy = -16 gives 2).
C25_ScrollRounds ==
    \A i \in DOMAIN ctl_events :
        ctl_events[i].type = "scroll" =>
            LET n == RoundToI32(-ctl_events[i].dy, 10)
            IN  ctl_calls[i] = IF n = 0 THEN << >> ELSE << <<"scroll", n, "Vertical">> >>

\* C26: a scroll with |dy| < 5 makes no call, whatever its dx; and a scroll
\* never makes a call other than one vertical scroll.
C26_SmallScrollDropped ==
    \A i \in DOMAIN ctl_events :
        ctl_events[i].type = "scroll" =>
            /\ (-5 < ctl_events[i].dy /\ ctl_events[i].dy < 5) => ctl_calls[i] = << >>
            /\ Len(ctl_calls[i]) <= 1
            /\ \A j \in DOMAIN ctl_calls[i] :
                  ctl_calls[i][j][1] = "scroll" /\ ctl_calls[i][j][3] = "Vertical"

\* C26 witness: a scroll with dx = 30 and dy = 4 was handled and made no call.
C26_Witness ==
    /\ Len(ctl_events) = 1
    /\ ctl_events[1].type = "scroll"
    /\ ctl_events[1].dx = 30
    /\ ctl_events[1].dy = 4
    /\ ctl_calls = << << >> >>

\* C27: mouse_down and mouse_up move the pointer to (x, y) and then press,
\* respectively release, one button: middle for code 1, right for code 2,
\* left for 0 and for every other code.
C27_MouseButtons ==
    \A i \in DOMAIN ctl_events :
        LET ev == ctl_events[i]
        IN  ev.type \in {"mouse_down", "mouse_up"} =>
              ctl_calls[i] =
                 << <<"move_mouse", ev.x, ev.y>>,
                    <<"button",
                      IF ev.button = 1 THEN "Middle"
                      ELSE IF ev.button = 2 THEN "Right" ELSE "Left",
                      IF ev.type = "mouse_down" THEN "Press" ELSE "Release">> >>

\* C27 witness: a mouse_down and a mouse_up with the button code 255 were
\* handled: the left button was pressed, then released.
C27_Witness ==
    /\ Len(ctl_events) = 2
    /\ ctl_events[1].type = "mouse_down" /\ ctl_events[1].button = 255
    /\ ctl_events[2].type = "mouse_up" /\ ctl_events[2].button = 255
    /\ ctl_calls[1][2] = <<"button", "Left", "Press">>
    /\ ctl_calls[2][2] = <<"button", "Left", "Release">>

\* C28: a key_down of a single character with no modifier set makes exactly
\* one call, text(that character), and a key_up makes no call.
C28_PrintableKeyAsText ==
    \A i \in DOMAIN ctl_events :
        LET ev == ctl_events[i]
        IN  /\ (ev.type = "key_down" /\ ev.key.chars = 1 /\ ev.modifiers = NoMods)
                  => ctl_calls[i] = << <<"text", ev.key.text>> >>
            /\ ev.type = "key_up" => ctl_calls[i] = << >>

\* the key a key_down is to click: Space, the character itself, or the
\* entry of the named-key table
ClickedKey(key) ==
    IF key.text = " " THEN [some |-> TRUE, kind |-> "named", name |-> "Space"]
    ELSE IF key.chars = 1 THEN [some |-> TRUE, kind |-> "unicode", name |-> key.text]
    ELSE [some |-> TRUE, kind |-> "named", name |-> NamedKeys[key.text]]

\* C29: a key_down of a single character with a modifier set, or of a key of
\* the named-key table, clicks the mapped key once, after pressing the set
\* modifiers in the order meta, ctrl, alt, shift and before releasing them in
\* the order shift, alt, ctrl, meta.
C29_ModifiedKeyClick ==
    \A i \in DOMAIN ctl_events :
        LET ev == ctl_events[i]
        IN  (/\ ev.type = "key_down"
             /\ ~(ev.key.chars = 1 /\ ev.modifiers = NoMods)
             /\ (ev.key.chars = 1 \/ ev.key.text \in DOMAIN NamedKeys))
            => ctl_calls[i] =
                  ModifierCalls(<<"meta", "ctrl", "alt", "shift">>, ev.modifiers, "Press")
                  \o << <<"key", ClickedKey(ev.key), "Click">> >>
                  \o ModifierCalls(<<"shift", "alt", "ctrl", "meta">>, ev.modifiers, "Release")

\* C30: the server sends offers and candidates only, never an answer, and at
\* most one offer; an offer received from the client is taken as a signaling
\* message and changes nothing: no description is set, nothing is sent, the
\* session stays open.
C30_OfferOrigin ==
    /\ [](\A i \in DOMAIN sig_sent : sig_sent[i].type \in {"offer", "ice"})
    /\ [](Cardinality({i \in DOMAIN sig_sent : sig_sent[i].type = "offer"}) <= 1)
    /\ [][\A f \in ClientFrames(variant) :
            (ReadFrame(f) /\ f.kind = "text" /\ f.tag = "offer" /\ f.wf) =>
               /\ outcome' = "signaling"
               /\ reader' = "loop"
               /\ UNCHANGED sessionState
         ]_vars

\* C30 witness: the server's own offer is out and a local offer is pending;
\* the first frame from the client was a signaling message that left the peer
\* connection as it was, as an inbound offer does.
C30_Witness ==
    /\ variant = "standalone"
    /\ HasOffer(ws_tx)
    /\ nrecv = 1
    /\ outcome = "signaling"
    /\ reader = "loop"
    /\ peer.signaling = "have-local-offer"
    /\ ~peer.remote
    /\ ice_arrived = 0

PrefixCameras == {DefaultCamera} \cup {cam_hist[i] : i \in DOMAIN cam_hist}

\* the frame set up from m was set up from the camera state c, all of it
MatrixOf(m, c) ==
    /\ m.eye.azimuth = c.azimuth
    /\ m.eye.elevation = c.elevation
    /\ m.eye.distance = c.distance
    /\ m.target = c.focal_point
    /\ m.fov = c.fov

\* C35: the view-projection matrix of every frame in flight is computed from
\* the camera as it was after some prefix of the applied input events, never
\* from a mixture of two such states.
C35_ConsistentSnapshot ==
    \A s \in Sessions :
        in_flight[s] =>
            /\ Len(frame_cam[s]) = 1
            /\ \E c \in PrefixCameras : MatrixOf(frame_cam[s][1], c)

\* C35 witness: a frame set up after a set_camera is still in flight while a
\* later event has changed the camera again
C35_Witness ==
    /\ in_flight[1]
    /\ Len(cam_hist) >= 2
    /\ cam_log[1] = "set_camera"
    /\ MatrixOf(frame_cam[1][1], cam_hist[1])
    /\ camera /= cam_hist[1]
    /\ cam_hist[1] /= DefaultCamera

\* C37: there is one camera for all sessions: every input event, whichever
\* session it arrived on, changes it, and the frame of every session is set up
\* from it as it is at that moment.
C37_SharedCamera ==
    [][
        /\ \A e \in CameraEvents :
              HandleInput(e) => camera' = handle_input(camera, e)
        /\ \A s \in Sessions :
              RenderSubmit(s) =>
                  /\ Len(frame_cam'[s]) = 1
                  /\ MatrixOf(frame_cam'[s][1], camera)
    ]_vars

\* C37 witness: one event has been applied, on one session, and the frames of
\* both sessions are set up from the camera it left
C37_Witness ==
    /\ Len(cam_log) = 1
    /\ camera /= DefaultCamera
    /\ \A s \in Sessions :
          /\ in_flight[s]
          /\ MatrixOf(frame_cam[s][1], camera)

\* the place of the factory name in the order tried
PlaceOf(order, name) == CHOOSE i \in DOMAIN order : order[i] = name

\* C32: create_encoder tries its candidates in a fixed order that ends with the
\* software encoder x264enc: the encoder returned is the first candidate of
\* that order that builds, x264enc is returned exactly when it builds and no
\* hardware candidate does, and the call fails exactly when no candidate
\* builds.
C32_EncoderSelection ==
    \A n \in DOMAIN enc_probes :
        LET p     == enc_probes[n]
            order == EncoderOrder(p.build)
            cands == {order[i] : i \in DOMAIN order}
            hw    == cands \ {"x264enc"}
        IN  /\ order[Len(order)] = "x264enc"
            /\ \A i \in 1..(Len(order) - 1) : order[i] /= "x264enc"
            /\ p.result.ok <=> (p.avail \cap cands /= {})
            /\ p.result.ok =>
                  /\ p.result.enc \in p.avail \cap cands
                  /\ \A i \in 1..(PlaceOf(order, p.result.enc) - 1) : order[i] \notin p.avail
            /\ (p.result.ok /\ p.result.enc = "x264enc")
                  <=> ("x264enc" \in p.avail /\ p.avail \cap hw = {})

\* C32 witness: one streamer was built where only the software encoder is
\* there and got it, another where two hardware encoders and the software
\* encoder are there and got the hardware encoder tried first
C32_Witness ==
    /\ Len(enc_probes) = 2
    /\ enc_probes[1].avail = {"x264enc"}
    /\ enc_probes[1].result = [ok |-> TRUE, enc |-> "x264enc"]
    /\ enc_probes[2].build = "screen_capture"
    /\ enc_probes[2].avail = {"nvh264enc", "vaapih264enc", "x264enc"}
    /\ enc_probes[2].result = [ok |-> TRUE, enc |-> "nvh264enc"]

\* the call of from_rgba the state holds
YuvCall == yuv[1]

\* C33: for even width and height the planes have width*height,
\* width*height/4 and width*height/4 elements, every luma element is written
\* once, every chroma element is written once and from the top-left pixel of
\* its 2x2 block, and the strides are width, width/2, width/2.
C33_PlaneSizes ==
    (yuv /= <<>> /\ YuvCall.width % 2 = 0 /\ YuvCall.height % 2 = 0) =>
        LET w   == YuvCall.width
            h   == YuvCall.height
            src == YuvCall.rgba
            out == YuvCall.out
        IN  /\ ~out.panicked
            /\ DOMAIN out.y = 0..(w * h - 1)
            /\ DOMAIN out.u = 0..((w * h) \div 4 - 1)
            /\ DOMAIN out.v = 0..((w * h) \div 4 - 1)
            /\ Cardinality(DOMAIN out.u) * 4 = w * h
            /\ \A i \in DOMAIN out.y : out.y_writes[i] = 1
            /\ \A i \in DOMAIN out.u : out.uv_writes[i] = 1
            /\ \A row \in 0..(h - 1), col \in 0..(w - 1) :
                  LET k  == row * w + col
                      tl == (row - (row % 2)) * w + (col - (col % 2))
                      c  == (row \div 2) * (w \div 2) + (col \div 2)
                  IN  /\ out.y[k] = y_val(src[4 * k], src[4 * k + 1], src[4 * k + 2])
                      /\ out.uv_from[c] = tl
                      /\ out.u[c] = u_val(src[4 * tl], src[4 * tl + 1], src[4 * tl + 2])
                      /\ out.v[c] = v_val(src[4 * tl], src[4 * tl + 1], src[4 * tl + 2])
            /\ strides(out) = <<w, w \div 2, w \div 2>>

\* C33 witness: a frame four pixels wide and four high has been converted
C33_Witness ==
    /\ yuv /= <<>>
    /\ YuvCall.width = 4
    /\ YuvCall.height = 4
    /\ ~YuvCall.out.panicked
    /\ YuvCall.out.uv_from[3] = 10

\* x lies in lo..hi, and neither clamp(0, 255) nor `as u8` changes it
Untouched(x, lo, hi) ==
    /\ lo <= x
    /\ x <= hi
    /\ clamp(x, 0, 255) = x
    /\ AsU8(x) = x

\* C39: for every pixel the BT.601 formulas give Y in 16..235 and U and V in
\* 16..240, so clamping to 0..255 changes nothing and the value fits a u8.
\* (The state holds the red value; green and blue range over all bytes.)
C39_NoClampNeeded ==
    px /= <<>> =>
        \A g \in Bytes, b \in Bytes :
            /\ Untouched(y_val(px[1], g, b), 16, 235)
            /\ Untouched(u_val(px[1], g, b), 16, 240)
            /\ Untouched(v_val(px[1], g, b), 16, 240)

\* C39 witness: the pixels with the largest red value have been converted;
\* among them are those where Y is 235, where U is 16 and where V is 240
C39_Witness ==
    /\ px = <<255>>
    /\ y_val(255, 255, 255) = 235
    /\ u_val(255, 255, 0) = 16
    /\ v_val(255, 0, 0) = 240

\* C40: from_rgba indexes no plane and not the input outside its bounds,
\* whatever the width and height, odd ones included.
C40_NoIndexOutside == yuv /= <<>> => ~YuvCall.out.panicked

\* C34: the teardown leaves the offer task alone; an offer task that is still
\* asleep when the teardown has run goes on to call create_offer, and that
\* call changes neither description of the closed peer connection, adds no
\* candidate and queues no operation.
C34_OfferTaskOutlivesSession ==
    /\ [][(CleanupAbort \/ CleanupClose) => offer_task' = offer_task]_vars
    /\ (reader = "done" /\ offer_task = "sleep") ~> (reader = "done" /\ offer_task = "done")
    /\ [][reader = "done" =>
            /\ peer'.local = peer.local
            /\ peer'.remote = peer.remote
            /\ peer'.signaling = peer.signaling
            /\ peer'.applied = peer.applied
            /\ peer'.pending = peer.pending
            /\ gst_ops' = gst_ops
         ]_vars

\* C34 witness: the session ended before the start-up delay was over: the
\* teardown has run and the offer task is still asleep
C34_Witness ==
    /\ reader = "done"
    /\ teardowns = 1
    /\ peer.closed
    /\ offer_task = "sleep"

\* the calls among the first n of calls that press (release) the key named k
KeyCalls(calls, n, k, dir) ==
    {j \in 1..n : calls[j][1] = "key" /\ calls[j][2].name = k /\ calls[j][3] = dir}

\* C36: within the calls of one key_down every modifier key is released as
\* often as it is pressed and never released before it is pressed, so none is
\* held when handle_event returns; a key_down whose key is neither a single
\* character nor in the named-key table makes no call at all.
C36_ModifiersBalanced ==
    \A i \in DOMAIN ctl_events :
        ctl_events[i].type = "key_down" =>
            LET calls == ctl_calls[i]
                key   == ctl_events[i].key
            IN  /\ \A k \in {"Meta", "Control", "Alt", "Shift"} :
                      /\ Cardinality(KeyCalls(calls, Len(calls), k, "Press"))
                            = Cardinality(KeyCalls(calls, Len(calls), k, "Release"))
                      /\ \A n \in 0..Len(calls) :
                            Cardinality(KeyCalls(calls, n, k, "Release"))
                              <= Cardinality(KeyCalls(calls, n, k, "Press"))
                /\ (key.chars /= 1 /\ key.text \notin DOMAIN NamedKeys) => calls = << >>

\* C36 witness: a key_down with all four modifiers has pressed and released
\* them around the click, and a key_down of a key that is not in the table,
\* with ctrl held, has made no call
C36_Witness ==
    /\ Len(ctl_events) = 2
    /\ ctl_events[1].type = "key_down"
    /\ ctl_events[1].modifiers = Mods(TRUE, TRUE, TRUE, TRUE)
    /\ Len(ctl_calls[1]) = 9
    /\ ctl_events[2].type = "key_down"
    /\ ctl_events[2].key = Key("Insert")
    /\ ctl_events[2].modifiers.ctrl
    /\ ctl_calls[2] = << >>

\* handle_signaling returns Err for the message f, or the peer connection
\* refuses what it is given: an answer whose SDP is rejected or that arrives
\* while no local offer is pending, a candidate while no remote description is
\* set (standalone); an answer whose SDP does not parse (screen)
ApplyFails(f) ==
    IF variant = "standalone"
    THEN \/ f.tag = "answer" /\ ~(f.ok /\ ~peer.closed /\ peer.signaling = "have-local-offer")
         \/ f.tag = "ice" /\ ~(peer.remote /\ ~peer.closed)
    ELSE f.tag = "answer" /\ ~f.ok

\* C38: a signaling message that decodes but cannot be applied leaves the
\* session as it was and open: the reader stays in its loop, the message is
\* not taken for an input event, nothing is sent, and the peer connection and
\* the webrtcbin queue are unchanged; only the count of candidates seen moves.
C38_FailedSignaling ==
    [][\A f \in ClientFrames(variant) :
         (ReadFrame(f) /\ f.kind = "text" /\ ParseSignaling(f) /\ ApplyFails(f)) =>
            /\ outcome' = "signaling"
            /\ reader' = "loop"
            /\ UNCHANGED <<arrived, in_q, effects>>
            /\ UNCHANGED <<peer, gst_ops>>
            /\ UNCHANGED <<teardowns, outVars, offer_task, pipeline, mediaVars, inputVars>>
      ]_vars

\* C38 witness: standalone build; the first frame was a candidate that the
\* peer connection refused (none is applied), the second an input event, and
\* that one was processed
C38_Witness ==
    /\ variant = "standalone"
    /\ nrecv = 2
    /\ ice_arrived = 1
    /\ peer.applied = {}
    /\ outcome = "input"
    /\ Len(arrived) = 1
    /\ reader = "loop"

====
